---------------------------- MODULE Spec2Model ----------------------------
(***************************************************************************)
(* A model of the Airbnb rental price prediction service (src/app.py):     *)
(* the process-wide (model, encoder) pair, the listings table, and the two *)
(* request handlers POST /reload and POST /predict.                        *)
(*                                                                         *)
(* Spec     : requests are handled one after another, each handler runs    *)
(*            to completion (the test client of src/tests/test_app.py).    *)
(* SpecConc : one /reload and one /predict are handled by two threads of   *)
(*            the threaded development server (app.run, src/app.py:200);   *)
(*            a thread can be preempted between two accesses of the        *)
(*            module globals `model` and `encoder`.                        *)
(*                                                                         *)
(* Numbers are integers: the datasets and requests drawn here hold whole   *)
(* numbers only.  A fitted LinearRegression is represented by the training *)
(* data (X, y) it was fitted on, and a predicted price by that data        *)
(* together with the feature row: the least-squares solution is a function *)
(* of nothing else.                                                        *)
(***************************************************************************)
EXTENDS Integers, Sequences, FiniteSets, TLC

\* Longest dataset (number of CSV rows) a reload fetches.
MaxRows == 3

\* Most reload calls the threaded server handles in SpecConc.
MaxConcReloads == 2

--------------------------------------------------------------------------
(* Values *)

\* pandas' missing numeric value (numpy.nan); real values here are >= 0.
NaN == -1

\* Python's None, and a null cell of a text column.
None == "None"

Range(s) == {s[i] : i \in 1..Len(s)}

\* The 25 hardcoded names of predict().
valid_neighborhoods ==
  << "East Boston", "Roxbury", "Beacon Hill", "Back Bay", "North End", "Dorchester",
     "Charlestown", "Jamaica Plain", "Downtown", "South Boston", "Bay Village",
     "Brighton", "West Roxbury", "Roslindale", "South End", "Mission Hill",
     "Fenway", "Allston", "Hyde Park", "West End", "Mattapan", "Leather District",
     "South Boston Waterfront", "Chinatown", "Longwood Medical Area" >>

\* The names of this model in the lexicographic order numpy sorts strings in
\* (OneHotEncoder.fit orders its categories that way).
LexicographicOrder ==
  << "Allston", "Atlantis", "Back Bay", "Bay Village", "Beacon Hill", "Brighton",
     "Charlestown", "Chinatown", "Dorchester", "Downtown", "East Boston", "Fenway",
     "Hyde Park", "Jamaica Plain", "Leather District", "Longwood Medical Area",
     "Mattapan", "Mission Hill", "North End", "Roslindale", "Roxbury",
     "South Boston", "South Boston Waterfront", "South End", "West End",
     "West Roxbury" >>

Digits == <<"0", "1", "2", "3", "4", "5", "6", "7", "8", "9">>

DigitValue(c) == (CHOOSE i \in 1..10 : Digits[i] = c) - 1

\* float(text) on a text of decimal digits; any other text raises ValueError
\* (astype(float)) or is coerced to NaN (to_numeric, errors='coerce').
IsNumberText(t) == Len(t) > 0 /\ \A i \in 1..Len(t) : t[i] \in Range(Digits)

RECURSIVE NumberOfText(_)
NumberOfText(t) ==
  IF Len(t) = 0 THEN 0
  ELSE 10 * NumberOfText(SubSeq(t, 1, Len(t) - 1)) + DigitValue(t[Len(t)])

\* Series.replace({'\$': '', ',': ''}, regex=True) on one price text.
StripCurrency(t) == SelectSeq(t, LAMBDA c : c \notin {"$", ","})

--------------------------------------------------------------------------
(* The fetched dataset *)

\* One CSV row, restricted to the five columns reload_data keeps.  price is
\* the text of the cell as a sequence of characters (<<>>: an empty cell,
\* which read_csv reads as null).
CsvRow(p, bd, ba, ac, n) ==
  [price |-> p, bedrooms |-> bd, bathrooms |-> ba, accommodates |-> ac,
   neighbourhood_cleansed |-> n]

CsvRows ==
  { CsvRow(<<"$", "9", "0">>, 1, 1, 2, "South Boston"),
    CsvRow(<<"$", "1", ",", "2", "0", "0">>, 2, 1, 4, "Atlantis"),
    CsvRow(<<"$", "9", "0">>, NaN, 1, 2, "South Boston"),
    CsvRow(<<"c", "a", "l", "l">>, 1, 1, 2, "South Boston") }

Datasets == UNION { [1..n -> CsvRows] : n \in 0..MaxRows }

\* pd.read_csv: a frame whose index is 0, 1, ..., one label per CSV row.
read_csv(d) ==
  [i \in 1..Len(d) |->
     [label |-> i - 1, price |-> d[i].price, bedrooms |-> d[i].bedrooms,
      bathrooms |-> d[i].bathrooms, accommodates |-> d[i].accommodates,
      neighbourhood_cleansed |-> d[i].neighbourhood_cleansed]]

\* A null in one of the four columns other than price.
IsNullCells(r) ==
  \/ r.bedrooms = NaN
  \/ r.bathrooms = NaN
  \/ r.accommodates = NaN
  \/ r.neighbourhood_cleansed = None

\* listings[[...five columns...]].dropna(), price still a text: the rows left
\* keep their labels.
dropna(frame) == SelectSeq(frame, LAMBDA r : ~(r.price = <<>> \/ IsNullCells(r)))

\* listings['price'].replace(...).astype(float): raises unless every price
\* parses.
PricesParse(frame) ==
  \A i \in 1..Len(frame) : IsNumberText(StripCurrency(frame[i].price))

astype_float(frame) ==
  [i \in 1..Len(frame) |->
     [frame[i] EXCEPT !.price = NumberOfText(StripCurrency(frame[i].price))]]

\* The Listing rows the insert loop adds, one per row of the frame.
Listing(r) ==
  [price |-> r.price, bedrooms |-> r.bedrooms, bathrooms |-> r.bathrooms,
   accommodates |-> r.accommodates, neighbourhood |-> r.neighbourhood_cleansed]

Listings(frame) == [i \in 1..Len(frame) |-> Listing(frame[i])]

--------------------------------------------------------------------------
(* preprocess_data and the fit *)

\* df.dropna(subset=[...five columns...]) on the frame whose price is a float.
dropna_subset(df) == SelectSeq(df, LAMBDA r : ~(r.price = NaN \/ IsNullCells(r)))

\* df['neighbourhood_cleansed'].mode()[0] raises on a frame with no row.
ModeRaises(df) == Len(df) = 0

\* OneHotEncoder.fit: the distinct values of the column, sorted.
categories_(df) ==
  SelectSeq(LexicographicOrder,
            LAMBDA n : \E i \in 1..Len(df) : df[i].neighbourhood_cleansed = n)

\* One row of the one-hot block: 1 at the index of the category, 0 elsewhere.
OneHot(categories, n) ==
  [k \in 1..Len(categories) |-> IF categories[k] = n THEN 1 ELSE 0]

\* pd.DataFrame(encoder.fit_transform(...)): one row per row of df, under a
\* fresh index 0, 1, ..., n-1.
neighbourhood_encoded_df(df, categories) ==
  [k \in 1..Len(df) |->
     [label |-> k - 1, onehot |-> OneHot(categories, df[k].neighbourhood_cleansed)]]

\* pd.concat([df, neighbourhood_encoded_df], axis=1) joins the two frames on
\* their index labels; a label only one of them has gets NaN in the other's
\* columns, and the final df.dropna() removes it.
concat_dropna(df, enc_df) ==
  LET both == SelectSeq(df, LAMBDA r : \E k \in 1..Len(enc_df) : enc_df[k].label = r.label)
  IN  [i \in 1..Len(both) |->
         [label |-> both[i].label, price |-> both[i].price,
          bedrooms |-> both[i].bedrooms, bathrooms |-> both[i].bathrooms,
          accommodates |-> both[i].accommodates,
          onehot |-> enc_df[CHOOSE k \in 1..Len(enc_df) :
                              enc_df[k].label = both[i].label].onehot]]

NoEncoder == [state |-> "None", categories |-> <<>>]

OneHotEncoder(categories) == [state |-> "fitted", categories |-> categories]

\* preprocess_data(df) for a frame with at least one row: (df, encoder).
preprocess_data(listings) ==
  LET df   == dropna_subset(listings)
      cats == categories_(df)
  IN  [df |-> concat_dropna(df, neighbourhood_encoded_df(df, cats)),
       encoder |-> OneHotEncoder(cats)]

\* The column names of X = df.drop(columns='price').
FeatureName(c) == <<"neighbourhood_cleansed", c>>

XColumns(categories) ==
  << <<"bedrooms">>, <<"bathrooms">>, <<"accommodates">> >>
    \o [k \in 1..Len(categories) |-> FeatureName(categories[k])]

XRow(r) == <<r.bedrooms, r.bathrooms, r.accommodates>> \o r.onehot

XMatrix(df) == [i \in 1..Len(df) |-> XRow(df[i])]

yVector(df) == [i \in 1..Len(df) |-> df[i].price]

NoModel == [state |-> "None", columns |-> <<>>, X |-> <<>>, y |-> <<>>]

\* model = LinearRegression(): an estimator that has not been fitted.
LinearRegression == [state |-> "unfitted", columns |-> <<>>, X |-> <<>>, y |-> <<>>]

\* model.fit(X, y) raises ValueError on a matrix with no row.
FitRaises(df) == Len(df) = 0

fit(df, categories) ==
  [state |-> "fitted", columns |-> XColumns(categories),
   X |-> XMatrix(df), y |-> yVector(df)]

--------------------------------------------------------------------------
(* The body of a predict request *)

\* A JSON value of the request body: null (or the key absent: data.get gives
\* None for both), a number, or a string given as its characters.
JNull == [type |-> "null", num |-> 0, text |-> <<>>]

JNumber(n) == [type |-> "number", num |-> n, text |-> <<>>]

JString(t) == [type |-> "string", num |-> 0, text |-> t]

JsonValues == { JNull, JNumber(2), JString(<<"3">>), JString(<<"t", "w", "o">>) }

RequestNames == { None, "Back Bay", "South Boston", "Atlantis" }

Bodies ==
  [bedrooms : JsonValues, bathrooms : JsonValues, accommodates : JsonValues,
   neighbourhood_cleansed : RequestNames]

\* The body of POST /reload: none.
NoBody ==
  [bedrooms |-> JNull, bathrooms |-> JNull, accommodates |-> JNull,
   neighbourhood_cleansed |-> None]

\* Variant: a text is never parsed (only JSON numbers count as numbers).
to_numeric_numbers_only(v) == IF v.type = "number" THEN v.num ELSE NaN

\* pd.to_numeric(v, errors='coerce') on a scalar: a number is returned as it
\* is, a text is parsed, and what does not parse (None included) becomes NaN.
to_numeric(v) ==
  CASE v.type = "number" -> v.num
    [] v.type = "string" -> IF IsNumberText(v.text) THEN NumberOfText(v.text) ELSE NaN
    [] OTHER -> NaN

\* Variant: the test `x is None`, which no NaN passes.
isna_as_none_test(x) == FALSE

\* pd.isna
isna(x) == x = NaN

\* Variant: a missing number counts as None too.
NoneInList_any_missing(bedrooms, bathrooms, accommodates, neighbourhood) ==
  neighbourhood = None \/ bedrooms = NaN \/ bathrooms = NaN \/ accommodates = NaN

\* None in [bedrooms, bathrooms, accommodates, neighbourhood]: the three
\* converted numbers are numbers or NaN, never None, so the test is decided
\* by the neighbourhood alone.
NoneInList(bedrooms, bathrooms, accommodates, neighbourhood) ==
  neighbourhood = None

\* Variant: the allowlist test left out.
NotInValidNeighborhoods_skipped(neighbourhood) == FALSE

\* neighbourhood not in valid_neighborhoods
NotInValidNeighborhoods(neighbourhood) ==
  neighbourhood \notin Range(valid_neighborhoods)

\* encoder.transform([[neighbourhood]]) raises ValueError (handle_unknown is
\* 'error') for a category the encoder was not fitted on.
TransformRaises(enc, neighbourhood) == neighbourhood \notin Range(enc.categories)

transform(enc, neighbourhood) == OneHot(enc.categories, neighbourhood)

\* Variant: the one-hot block put before the three numbers.
concatenate_onehot_first(bedrooms, bathrooms, accommodates, encoded) ==
  encoded \o <<bedrooms, bathrooms, accommodates>>

\* np.concatenate(([bedrooms, bathrooms, accommodates], neighbourhood_encoded[0]))
concatenate(bedrooms, bathrooms, accommodates, encoded) ==
  <<bedrooms, bathrooms, accommodates>> \o encoded

\* model.predict(input_data) raises NotFittedError on an estimator that was
\* not fitted and ValueError on a row of another width than the training
\* matrix.
PredictRaises(m, input) == m.state # "fitted" \/ Len(input) # Len(m.columns)

\* model.predict(input_data)[0]: the value at `input` of the least-squares
\* fit of (X, y).
LinearRegressionPredict(m, input) == [X |-> m.X, y |-> m.y, at |-> input]

--------------------------------------------------------------------------
(* Responses *)

NotLoadedError ==
  "The data has not been loaded. Please refresh the data by calling the '/reload' endpoint first."

MissingError == "Missing or invalid required parameters"

\* The text before the comma-joined valid_neighborhoods, which the response
\* carries in `choices`.
InvalidNeighborhoodError == "Invalid neighborhood. Please choose one of the following: "

InvalidNumericError == "Invalid numeric values for bedrooms, bathrooms, or accommodates"

Response(op, status, error, choices, price, total) ==
  [op |-> op, status |-> status, error |-> error, choices |-> choices,
   predicted_price |-> price, total_listings |-> total]

\* jsonify({"error": ...}), status
ErrorResponse(op, status, error) == Response(op, status, error, <<>>, <<>>, 0)

NoResponse == Response("none", 0, "", <<>>, <<>>, 0)

\* The first part of predict(), which reads both globals once and then only
\* the request: the response it returns, or status 0 when it goes on to the
\* encoder.
predict_validate(data, m, enc) ==
  LET bedrooms      == to_numeric(data.bedrooms)
      bathrooms     == to_numeric(data.bathrooms)
      accommodates  == to_numeric(data.accommodates)
      neighbourhood == data.neighbourhood_cleansed
  IN  IF m.state = "None" \/ enc.state = "None"
        THEN ErrorResponse("predict", 400, NotLoadedError)
      ELSE IF NoneInList(bedrooms, bathrooms, accommodates, neighbourhood)
        THEN ErrorResponse("predict", 400, MissingError)
      ELSE IF NotInValidNeighborhoods(neighbourhood)
        THEN Response("predict", 400, InvalidNeighborhoodError,
                      valid_neighborhoods, <<>>, 0)
      ELSE IF isna(bedrooms) \/ isna(bathrooms) \/ isna(accommodates)
        THEN ErrorResponse("predict", 400, InvalidNumericError)
      ELSE NoResponse

\* The second part: the feature row built from the encoder read now (<<>>
\* when encoder.transform raises).
predict_transform(data, enc) ==
  IF TransformRaises(enc, data.neighbourhood_cleansed) THEN <<>>
  ELSE concatenate(to_numeric(data.bedrooms), to_numeric(data.bathrooms),
                   to_numeric(data.accommodates),
                   transform(enc, data.neighbourhood_cleansed))

\* The third part: the model read now, applied to the row; every exception
\* of the try block ends in the 500 of the except clause.
predict_evaluate(input, m) ==
  IF input = <<>> THEN ErrorResponse("predict", 500, "ValueError: Found unknown categories")
  ELSE IF m.state # "fitted" THEN ErrorResponse("predict", 500, "NotFittedError")
  ELSE IF PredictRaises(m, input) THEN ErrorResponse("predict", 500, "ValueError: features")
  ELSE Response("predict", 200, "", <<>>, <<LinearRegressionPredict(m, input)>>, 0)

--------------------------------------------------------------------------
(* State *)

VARIABLES
  store,        \* the rows of the Listing table (committed)
  model,        \* the module global `model`
  encoder,      \* the module global `encoder`
  req,          \* the body of the predict request being answered
  resp,         \* the response of predict() on its way to the client
  reload_resp,  \* the response of reload_data() on its way to the client
  input_data,   \* the feature row that predict call built (<<>>: none)
  observed,     \* the (model, encoder) that predict call evaluated (<<>>: none)
  last_reload,  \* history: how the last reload call ended and what it trained
  fetched,      \* history: the table the reload being answered fetched, if any
  installed,    \* history (SpecConc): the pairs in place between reload calls
  reloads,      \* history (SpecConc): the reload calls started
  pc,           \* SpecConc: where the reload and the predict thread stand
  listings,     \* SpecConc: the reload thread's local `listings`
  df,           \* SpecConc: the reload thread's local `df`
  data          \* SpecConc: the predict thread's local `data`

globals == <<store, model, encoder>>

exchange == <<req, resp, input_data, observed>>

threads == <<installed, reloads, pc, listings, df, data>>

vars == <<store, model, encoder, req, resp, reload_resp, input_data, observed,
          last_reload, fetched, installed, reloads, pc, listings, df, data>>

Pair(m, enc) == [model |-> m, encoder |-> enc]

\* What a reload call leaves for the history: its status and, when it
\* completed, the model and the vocabulary it trained and the rows it stored.
ReloadRecord(status, m, enc, rows) ==
  [status |-> status, model |-> m, encoder |-> enc, store |-> rows]

Init ==
  /\ store = <<>>
  /\ model = NoModel
  /\ encoder = NoEncoder
  /\ req = NoBody
  /\ resp = NoResponse
  /\ reload_resp = NoResponse
  /\ input_data = <<>>
  /\ observed = <<>>
  /\ last_reload = ReloadRecord(0, NoModel, NoEncoder, <<>>)
  /\ fetched = <<>>
  /\ installed = {Pair(NoModel, NoEncoder)}
  /\ reloads = 0
  /\ pc = [reload |-> "idle", predict |-> "idle"]
  /\ listings = <<>>
  /\ df = <<>>
  /\ data = NoBody

\* No response is on its way: the client of Spec sends its next request only
\* when it has the response to the last one.
Idle == resp = NoResponse /\ reload_resp = NoResponse

--------------------------------------------------------------------------
(* POST /reload, run to completion *)

\* Steps 3 and 4 of reload_data on the fetched table: the cleaned frame, and
\* whether astype(float) raises (the session is then rolled back when the
\* request ends, so neither the delete nor an insert reaches the table).
Ingest(d) ==
  LET frame == dropna(read_csv(d))
  IN  IF PricesParse(frame)
        THEN [ok |-> TRUE, listings |-> astype_float(frame)]
        ELSE [ok |-> FALSE, listings |-> <<>>]

\* The summary of a completed reload (total_listings of it).
Summary(frame) == Response("reload", 200, "", <<>>, <<>>, Len(frame))

\* An exception reload_data does not catch: Flask answers 500.
ReloadFailed(error) == ErrorResponse("reload", 500, error)

ConvertError == "ValueError: could not convert string to float"

ModeError == "KeyError: 0"

FitError == "ValueError: Found array with 0 sample(s)"

\* reload_data() on the fetched table d: the globals and the table it leaves
\* and its response.
reload_data(d, st, m, enc) ==
  LET ing == Ingest(d)
      pp  == preprocess_data(ing.listings)
  IN  IF ~ing.ok
        THEN [store |-> st, model |-> m, encoder |-> enc,
              resp |-> ReloadFailed(ConvertError)]
      ELSE IF ModeRaises(ing.listings)
        THEN [store |-> Listings(ing.listings), model |-> m, encoder |-> enc,
              resp |-> ReloadFailed(ModeError)]
      ELSE IF FitRaises(pp.df)
        THEN [store |-> Listings(ing.listings), model |-> LinearRegression,
              encoder |-> pp.encoder, resp |-> ReloadFailed(FitError)]
      ELSE [store |-> Listings(ing.listings),
            model |-> fit(pp.df, pp.encoder.categories),
            encoder |-> pp.encoder, resp |-> Summary(ing.listings)]

RecordOf(r, m, enc, rows) ==
  IF r.status = 200 THEN ReloadRecord(200, m, enc, rows)
  ELSE ReloadRecord(r.status, NoModel, NoEncoder, <<>>)

Reload(d) ==
  LET out == reload_data(d, store, model, encoder)
  IN  /\ Idle
      /\ store' = out.store
      /\ model' = out.model
      /\ encoder' = out.encoder
      /\ reload_resp' = out.resp
      /\ last_reload' = RecordOf(out.resp, out.model, out.encoder, out.store)
      /\ fetched' = <<d>>
      /\ UNCHANGED <<exchange, threads>>

\* requests.get, gzip or pd.read_csv raises: nothing was touched yet.
ReloadFetchFails ==
  /\ Idle
  /\ reload_resp' = ReloadFailed("FetchError")
  /\ last_reload' = ReloadRecord(500, NoModel, NoEncoder, <<>>)
  /\ fetched' = <<>>
  /\ UNCHANGED <<globals, exchange, threads>>

\* The database raises in the delete, an insert or the commit: the session
\* is rolled back.
ReloadStoreFails ==
  /\ Idle
  /\ reload_resp' = ReloadFailed("OperationalError")
  /\ last_reload' = ReloadRecord(500, NoModel, NoEncoder, <<>>)
  /\ fetched' = <<>>
  /\ UNCHANGED <<globals, exchange, threads>>

--------------------------------------------------------------------------
(* POST /predict, run to completion *)

\* predict() on the body `body` with the globals (m, enc): its response, the
\* feature row it built and the pair it evaluated.
predict(body, m, enc) ==
  LET early == predict_validate(body, m, enc)
      input == predict_transform(body, enc)
  IN  IF early.status # 0
        THEN [resp |-> early, input_data |-> <<>>, observed |-> <<>>]
        ELSE [resp |-> predict_evaluate(input, m), input_data |-> input,
              observed |-> IF input = <<>> THEN <<>> ELSE <<Pair(m, enc)>>]

Predict(body) ==
  LET out == predict(body, model, encoder)
  IN  /\ Idle
      /\ req' = body
      /\ resp' = out.resp
      /\ input_data' = out.input_data
      /\ observed' = out.observed
      /\ UNCHANGED <<globals, reload_resp, last_reload, fetched, threads>>

\* The client receives the response.
Deliver ==
  /\ ~Idle
  /\ req' = NoBody
  /\ resp' = NoResponse
  /\ reload_resp' = NoResponse
  /\ input_data' = <<>>
  /\ observed' = <<>>
  /\ fetched' = <<>>
  /\ UNCHANGED <<globals, last_reload, threads>>

Next ==
  \/ \E d \in Datasets : Reload(d)
  \/ ReloadFetchFails
  \/ ReloadStoreFails
  \/ \E body \in Bodies : Predict(body)
  \/ Deliver

Spec == Init /\ [][Next]_vars

--------------------------------------------------------------------------
(* The two handlers on two threads *)

\* The bodies the predict thread is sent: predict_validate reads the globals
\* once, before it looks at the body, so the numbers are taken valid.
ConcBodies ==
  { b \in Bodies : b.bedrooms = JNumber(2) /\ b.bathrooms = JNumber(2)
                   /\ b.accommodates = JNumber(2) }

\* The reload thread ends its call with the response r.
ReloadReturns(r, m, enc, rows) ==
  /\ reload_resp' = r
  /\ last_reload' = RecordOf(r, m, enc, rows)
  /\ installed' = installed \cup {Pair(m, enc)}
  /\ pc' = [pc EXCEPT !.reload = "idle"]
  /\ listings' = <<>>
  /\ df' = <<>>

\* Steps 1 to 4: fetch, clear the table, insert and commit.
ReloadIngest(d) ==
  LET ing == Ingest(d)
  IN  /\ pc.reload = "idle"
      /\ reloads < MaxConcReloads
      /\ reloads' = reloads + 1
      /\ fetched' = <<d>>
      /\ IF ing.ok
           THEN /\ store' = Listings(ing.listings)
                /\ listings' = ing.listings
                /\ pc' = [pc EXCEPT !.reload = "preprocess"]
                /\ reload_resp' = NoResponse
                /\ UNCHANGED <<last_reload, installed, df>>
           ELSE /\ ReloadReturns(ReloadFailed(ConvertError), model, encoder, store)
                /\ UNCHANGED store
      /\ UNCHANGED <<model, encoder, exchange, data>>

\* df, encoder = preprocess_data(listings): the global `encoder` is assigned.
ReloadPreprocess ==
  LET pp == preprocess_data(listings)
  IN  /\ pc.reload = "preprocess"
      /\ IF ModeRaises(listings)
           THEN /\ ReloadReturns(ReloadFailed(ModeError), model, encoder, store)
                /\ UNCHANGED encoder
           ELSE /\ encoder' = pp.encoder
                /\ df' = pp.df
                /\ pc' = [pc EXCEPT !.reload = "new_model"]
                /\ UNCHANGED <<reload_resp, last_reload, installed, listings>>
      /\ UNCHANGED <<store, model, exchange, fetched, reloads, data>>

\* model = LinearRegression(): the global `model` is assigned.
ReloadNewModel ==
  /\ pc.reload = "new_model"
  /\ model' = LinearRegression
  /\ pc' = [pc EXCEPT !.reload = "fit"]
  /\ UNCHANGED <<store, encoder, exchange, reload_resp, last_reload, fetched,
                 installed, reloads, listings, df, data>>

\* model.fit(X, y) on the object `model` names, and the summary.
ReloadFit ==
  /\ pc.reload = "fit"
  /\ IF FitRaises(df)
       THEN /\ ReloadReturns(ReloadFailed(FitError), model, encoder, store)
            /\ UNCHANGED model
       ELSE /\ model' = fit(df, encoder.categories)
            /\ ReloadReturns(Summary(listings), fit(df, encoder.categories),
                             encoder, store)
  /\ UNCHANGED <<store, encoder, exchange, fetched, reloads, data>>

\* The predict thread ends its call with the response r.
PredictReturns(r) ==
  /\ resp' = r
  /\ pc' = [pc EXCEPT !.predict = "idle"]

\* The None test of both globals and the checks of the body.
PredictValidate(body) ==
  LET early == predict_validate(body, model, encoder)
  IN  /\ pc.predict = "idle"
      /\ data' = body
      /\ req' = body
      /\ input_data' = <<>>
      /\ observed' = <<>>
      /\ IF early.status # 0
           THEN PredictReturns(early)
           ELSE /\ resp' = NoResponse
                /\ pc' = [pc EXCEPT !.predict = "transform"]
      /\ UNCHANGED <<globals, reload_resp, last_reload, fetched, installed,
                     reloads, listings, df>>

\* encoder.transform: the global `encoder` is read again.
PredictTransform ==
  LET input == predict_transform(data, encoder)
  IN  /\ pc.predict = "transform"
      /\ input_data' = input
      /\ IF input = <<>>
           THEN /\ PredictReturns(predict_evaluate(input, model))
                /\ UNCHANGED observed
           ELSE /\ observed' = <<Pair(NoModel, encoder)>>
                /\ pc' = [pc EXCEPT !.predict = "evaluate"]
                /\ UNCHANGED resp
      /\ UNCHANGED <<globals, req, reload_resp, last_reload, fetched, installed,
                     reloads, listings, df, data>>

\* model.predict: the global `model` is read again.
PredictEvaluate ==
  /\ pc.predict = "evaluate"
  /\ observed' = <<Pair(model, observed[1].encoder)>>
  /\ PredictReturns(predict_evaluate(input_data, model))
  /\ UNCHANGED <<globals, req, input_data, reload_resp, last_reload, fetched,
                 installed, reloads, listings, df, data>>

NextConc ==
  \/ \E d \in Datasets : ReloadIngest(d)
  \/ ReloadPreprocess
  \/ ReloadNewModel
  \/ ReloadFit
  \/ \E body \in ConcBodies : PredictValidate(body)
  \/ PredictTransform
  \/ PredictEvaluate

SpecConc == Init /\ [][NextConc]_vars

--------------------------------------------------------------------------
(* Properties *)

\* A predict call has just been answered: req is its body and the globals
\* are those it ran on.
Answered == resp # NoResponse

\* A reload call has just been answered.
Reloaded == reload_resp # NoResponse

\* The Ready state: a fitted model and its vocabulary are in place.
Ready == model.state = "fitted" /\ encoder.state = "fitted"

\* A JSON value that is a finite number, or a text that reads as one.
ParsesAsNumber(v) ==
  \/ v.type = "number"
  \/ v.type = "string" /\ v.text # <<>> /\ \A i \in 1..Len(v.text) : v.text[i] \in Range(Digits)

NumberValue(v) == IF v.type = "number" THEN v.num ELSE NumberOfText(v.text)

NumbersValid(body) ==
  /\ ParsesAsNumber(body.bedrooms)
  /\ ParsesAsNumber(body.bathrooms)
  /\ ParsesAsNumber(body.accommodates)

Allowlisted(n) == \E k \in 1..Len(valid_neighborhoods) : valid_neighborhoods[k] = n

\* The feature row the pipeline is specified to build for a body: the three
\* numbers, then one entry per category in the vocabulary's order.
ExpectedRow(body, categories) ==
  <<NumberValue(body.bedrooms), NumberValue(body.bathrooms),
    NumberValue(body.accommodates)>>
    \o [k \in 1..Len(categories) |->
          IF categories[k] = body.neighbourhood_cleansed THEN 1 ELSE 0]

\* The rows of a fetched table the Cleaner is specified to keep, as records
\* of the store: all five fields present and a price that parses.
ValidListings(d) ==
  LET keep == SelectSeq(d, LAMBDA r :
                /\ r.price # <<>>
                /\ r.bedrooms # NaN /\ r.bathrooms # NaN /\ r.accommodates # NaN
                /\ r.neighbourhood_cleansed # None
                /\ IsNumberText(StripCurrency(r.price)))
  IN  [i \in 1..Len(keep) |->
         [price |-> NumberOfText(StripCurrency(keep[i].price)),
          bedrooms |-> keep[i].bedrooms, bathrooms |-> keep[i].bathrooms,
          accommodates |-> keep[i].accommodates,
          neighbourhood |-> keep[i].neighbourhood_cleansed]]

\* C1: a reload call that fails leaves the (model, encoder) pair as it was
\* before the call (so an Uninitialized service stays Uninitialized and a
\* Ready one keeps its fitted model and vocabulary).  Stated of every step
\* of Spec that ends a reload call with another status than 200.
C1_FailedReloadKeepsPair ==
  [][(reload_resp' # NoResponse /\ reload_resp'.status # 200)
       => (model' = model /\ encoder' = encoder)]_vars

\* C2: a predict call that runs while a reload call runs evaluates its input
\* on a (model, encoder) pair that was in place before or after a reload
\* call, never on a mixture of two pairs nor on a model not fitted yet.
\* Stated when both threads are idle again.
C2_PredictSeesOnePair ==
  (pc.reload = "idle" /\ pc.predict = "idle" /\ observed # <<>>)
    => observed[1] \in installed

\* C3: when the last reload call completed, a predict call with three
\* numbers and a neighbourhood that is on the allowlist and in the fitted
\* vocabulary answers 200 with the price the model of that reload gives for
\* the row [numbers, one-hot over that vocabulary], and the model, the
\* vocabulary and the stored listings are still those that reload left.
C3_ValidPredictSucceeds ==
  ( /\ Answered
    /\ last_reload.status = 200
    /\ NumbersValid(req)
    /\ Allowlisted(req.neighbourhood_cleansed)
    /\ req.neighbourhood_cleansed \in Range(last_reload.encoder.categories) )
  => /\ resp.status = 200
     /\ resp.predicted_price =
          << [X |-> last_reload.model.X, y |-> last_reload.model.y,
              at |-> ExpectedRow(req, last_reload.encoder.categories)] >>
     /\ last_reload.model.state = "fitted"
     /\ model = last_reload.model
     /\ encoder = last_reload.encoder
     /\ store = last_reload.store

C3_Witness ==
  /\ Answered
  /\ last_reload.status = 200
  /\ resp.status = 200
  /\ req.neighbourhood_cleansed = "South Boston"
  /\ Len(encoder.categories) = 2

\* C4: in the Ready state a predict call (with three valid numbers) whose
\* neighbourhood is not in the fitted vocabulary answers 400 with the list
\* of valid choices and no predicted price, whether or not the name is on
\* the allowlist.
C4_UnknownCategoryIs400 ==
  ( /\ Answered
    /\ Ready
    /\ NumbersValid(req)
    /\ req.neighbourhood_cleansed # None
    /\ req.neighbourhood_cleansed \notin Range(encoder.categories) )
  => /\ resp.status = 400
     /\ resp.choices # <<>>
     /\ resp.predicted_price = <<>>

\* C5: the feature row a predict call builds has the width and the column
\* order of the training matrix the current model was fitted on: bedrooms,
\* bathrooms, accommodates, then the one-hot block over the vocabulary in the
\* vocabulary's order, 3 + |vocabulary| entries in all.
C5_FeatureRowMatchesTraining ==
  (Answered /\ input_data # <<>> /\ model.state = "fitted")
  => /\ Len(input_data) = 3 + Len(encoder.categories)
     /\ Len(input_data) = Len(model.columns)
     /\ \A i \in 1..Len(model.X) : Len(model.X[i]) = Len(input_data)
     /\ model.columns[1] = <<"bedrooms">>
     /\ model.columns[2] = <<"bathrooms">>
     /\ model.columns[3] = <<"accommodates">>
     /\ input_data[1] = NumberValue(req.bedrooms)
     /\ input_data[2] = NumberValue(req.bathrooms)
     /\ input_data[3] = NumberValue(req.accommodates)
     /\ \A k \in 1..Len(encoder.categories) :
          /\ model.columns[3 + k] = <<"neighbourhood_cleansed", encoder.categories[k]>>
          /\ input_data[3 + k] =
               IF encoder.categories[k] = req.neighbourhood_cleansed THEN 1 ELSE 0

C5_Witness ==
  /\ Answered
  /\ model.state = "fitted"
  /\ Len(input_data) = 5
  /\ input_data[5] = 1

\* C6: in the Ready state a predict call whose neighbourhood is on the
\* allowlist and in which one of the three numbers is missing or does not
\* read as a number answers 400 with the invalid-numeric-values error, and
\* nothing is encoded or predicted.
C6_BadNumberIs400 ==
  ( /\ Answered
    /\ Ready
    /\ Allowlisted(req.neighbourhood_cleansed)
    /\ ~NumbersValid(req) )
  => /\ resp.status = 400
     /\ resp.error = InvalidNumericError
     /\ resp.predicted_price = <<>>
     /\ input_data = <<>>
     /\ observed = <<>>

C6_Witness ==
  /\ Answered
  /\ Ready
  /\ req = [bedrooms |-> JNumber(2), bathrooms |-> JNumber(2),
            accommodates |-> JNull, neighbourhood_cleansed |-> "South Boston"]
  /\ resp.error = InvalidNumericError

\* C7: in the Ready state a predict call whose neighbourhood is given but is
\* not one of the 25 hardcoded names answers 400 with the invalid-
\* neighbourhood error listing the 25 names, whatever the three numbers are,
\* and nothing is encoded or predicted.
C7_UnlistedNameIs400 ==
  ( /\ Answered
    /\ Ready
    /\ req.neighbourhood_cleansed # None
    /\ ~Allowlisted(req.neighbourhood_cleansed) )
  => /\ resp.status = 400
     /\ resp.error = InvalidNeighborhoodError
     /\ resp.choices = valid_neighborhoods
     /\ Len(resp.choices) = 25
     /\ resp.predicted_price = <<>>
     /\ input_data = <<>>
     /\ observed = <<>>

C7_Witness ==
  /\ Answered
  /\ Ready
  /\ req.neighbourhood_cleansed = "Atlantis"
  /\ "Atlantis" \in Range(encoder.categories)
  /\ NumbersValid(req)
  /\ resp.error = InvalidNeighborhoodError

\* C8 as stated: in the Ready state a predict call in which any one of the
\* four fields is absent answers 400 with the missing-parameters error.
C8_AnyAbsentFieldIsMissing ==
  ( /\ Answered
    /\ Ready
    /\ \/ req.bedrooms = JNull
       \/ req.bathrooms = JNull
       \/ req.accommodates = JNull
       \/ req.neighbourhood_cleansed = None )
  => /\ resp.status = 400
     /\ resp.error = MissingError

\* C8 as amended: in the Ready state a predict call answers 400 with the
\* missing-parameters error exactly when neighbourhood_cleansed is absent,
\* whatever the three numbers are; an absent number alone never gives it.
C8_AbsentNeighbourhoodIsMissing ==
  (Answered /\ Ready)
  => /\ req.neighbourhood_cleansed = None
          => (resp.status = 400 /\ resp.error = MissingError)
     /\ req.neighbourhood_cleansed # None => resp.error # MissingError

C8_Witness ==
  /\ Answered
  /\ Ready
  /\ req.neighbourhood_cleansed = None
  /\ NumbersValid(req)
  /\ resp.error = MissingError

\* C9: for every fetched table a reload call drops the rows with a null
\* field or a price that does not parse, completes, and leaves in the store
\* exactly the remaining rows of that table.  Stated of the tables that keep
\* at least one row (the trainer may refuse a table that keeps none).
C9_ReloadKeepsValidRows ==
  (Reloaded /\ fetched # <<>> /\ ValidListings(fetched[1]) # <<>>)
  => /\ reload_resp.status = 200
     /\ store = ValidListings(fetched[1])

\* C10: every row of the training matrix of a completed reload pairs the
\* price and the three numbers of one cleaned listing with the one-hot block
\* of that same listing's neighbourhood over the vocabulary.
C10_TrainingRowsPairOneListing ==
  (Reloaded /\ reload_resp.status = 200)
  => \A i \in 1..Len(model.X) :
       \E j \in 1..Len(store) :
         /\ model.y[i] = store[j].price
         /\ model.X[i] =
              <<store[j].bedrooms, store[j].bathrooms, store[j].accommodates>>
                \o [k \in 1..Len(encoder.categories) |->
                      IF encoder.categories[k] = store[j].neighbourhood THEN 1 ELSE 0]

==========================================================================
